---- MODULE Spec2Model ----
(***************************************************************************)
(* The SQLAlchemy storage managers of hamster-lib / nark: the Category,    *)
(* Tag and Activity managers working through one ORM session on a store    *)
(* of categories, tags, activities and facts.                              *)
(*                                                                         *)
(* The store is two copies of the tables: db, what is committed, and ses,  *)
(* what the session sees (db plus the pending changes of its objects).     *)
(* A manager call is one action; it runs the whole handler on the current  *)
(* store and records the call and its outcome in last.                     *)
(***************************************************************************)
EXTENDS Integers, FiniteSets, Sequences, TLC

VARIABLES db, ses, inactive, last, race

vars == <<db, ses, inactive, last, race>>

(* ---- bounds ---- *)
MaxCats == 2
MaxTags == 1
MaxActs == 3
MaxFacts == 2
MaxTime == 2

(* ---- values ---- *)
Names == {"a", "b"}
NULL == 0
(* the pks an item is given: none, or that of the first or second row *)
ArgPks == 0..2
Times == 0..MaxTime

EmptyTables == [cats |-> {}, acts |-> {}, tags |-> {}, facts |-> {}]

Max(S) == CHOOSE x \in S : \A y \in S : y <= x

(* INTEGER PRIMARY KEY of the tables: the next id is one above the largest *)
NextPk(rows) == IF rows = {} THEN 1 ELSE Max({r.pk : r \in rows}) + 1

Row(rows, pk) == CHOOSE r \in rows : r.pk = pk

HasPk(rows, pk) == \E r \in rows : r.pk = pk

(* ---- the tables' UNIQUE constraints ---- *)
(* categories.name and tags.name are unique; activities has                *)
(* UniqueConstraint('name', 'category_id'), which SQL does not apply to    *)
(* rows whose category_id is NULL.                                         *)
DupName(rows) == \E r1 \in rows, r2 \in rows : r1.pk # r2.pk /\ r1.name = r2.name

DupActivity(rows) ==
    \E r1 \in rows, r2 \in rows :
        /\ r1.pk # r2.pk
        /\ r1.name = r2.name
        /\ r1.category = r2.category
        /\ r1.category # NULL

Violates(t) == DupName(t.cats) \/ DupName(t.tags) \/ DupActivity(t.acts)

(* ---- errors ---- *)
(* What a handler raises: "" when it returns.  The ValueErrors are told    *)
(* apart by their message.                                                 *)
HasPkError == "ValueError: already has a PK"

NoPkError == "ValueError: no PK"

TakenError == "ValueError: name/category combination already present"

CommitError == "ValueError: IntegrityError on commit"

OccupiedError == "ValueError: timeframe occupied"

ValueErrors == {HasPkError, NoPkError, TakenError, CommitError, OccupiedError}

(* ---- the session ---- *)
(* A store state st is [ses, db, inactive].  A step of a handler returns   *)
(* [err, st, ret]: err = "" when it did not raise.                         *)
St(s, d, i) == [ses |-> s, db |-> d, inactive |-> i]

Res(e, st, r) == [err |-> e, st |-> st, ret |-> r]

(* A flush that fails rolls the transaction back: the pending changes are  *)
(* dropped and, no handler calling session.rollback(), the session stays   *)
(* inactive: every later statement raises InvalidRequestError.             *)
Rollback(st) == St(st.db, st.db, TRUE)

(* A query autoflushes the pending changes before it runs. *)
Autoflush(st) ==
    IF st.inactive THEN Res("InvalidRequestError", st, 0)
    ELSE IF Violates(st.ses) THEN Res("IntegrityError", Rollback(st), 0)
    ELSE Res("", st, 0)

(* session.commit(): flush, then make the session's view the committed one *)
Commit(st) ==
    IF st.inactive THEN Res("InvalidRequestError", st, 0)
    ELSE IF Violates(st.ses) THEN Res("IntegrityError", Rollback(st), 0)
    ELSE Res("", St(st.ses, st.ses, FALSE), 0)

(* session.query(X).get(pk): an object of the identity map that has        *)
(* pending changes is returned as it is; otherwise a SELECT (autoflush).   *)
(* ret is the pk found, NULL when there is no such row.                    *)
QueryGet(st, tbl, pk) ==
    IF st.inactive THEN Res("InvalidRequestError", st, 0)
    ELSE IF HasPk(st.ses[tbl], pk) /\ Row(st.ses[tbl], pk) \notin st.db[tbl]
         THEN Res("", st, pk)
    ELSE LET f == Autoflush(st) IN
         IF f.err # "" THEN f
         ELSE Res("", st, IF HasPk(st.ses[tbl], pk) THEN pk ELSE NULL)

SetTable(st, tbl, rows) == St([st.ses EXCEPT ![tbl] = rows], st.db, st.inactive)

(* ---- items ---- *)
(* Category(pk, name) and Tag(pk, name); pk = NULL is pk None.  None is   *)
(* the Python None passed where an item is expected.                       *)
NameItems == [pk : ArgPks, name : Names]

(* the Category an Activity is given: "a", unkeyed or keyed *)
CategoryArgs == {c \in NameItems : c.pk <= 1 /\ c.name = "a"}

None == [pk |-> NULL, name |-> ""]

(* Activity(pk, name, category, deleted); category is a Category or None *)
Activities == [pk : ArgPks, name : Names, category : CategoryArgs \cup {None},
               deleted : BOOLEAN]

(* the activities add and get_or_create are given: not deleted, unkeyed    *)
(* or with pk 1, in no category or an unkeyed one (they read only the      *)
(* category's name)                                                        *)
NewActivities == {a \in Activities :
                      ~a.deleted /\ a.pk <= 1 /\ a.category.pk = NULL}

(* ---- CategoryManager and TagManager (tbl is "cats" or "tags") ---- *)

(* adding_item_must_not_have_pk: ValueError when the item has a pk *)
adding_item_must_not_have_pk(item) == IF item.pk # NULL THEN HasPkError ELSE ""

(* session_commit_maybe: the commit's IntegrityError becomes ValueError *)
session_commit_maybe(st, skip_commit) ==
    IF skip_commit THEN Res("", st, 0)
    ELSE LET c == Commit(st) IN
         IF c.err = "IntegrityError" THEN Res(CommitError, c.st, 0) ELSE c

(* add_and_commit: session.add, then commit; returns the new item's pk *)
add_and_commit(st, tbl, row, skip_commit) ==
    LET added == SetTable(st, tbl, st.ses[tbl] \cup {row})
        c == session_commit_maybe(added, skip_commit)
    IN IF c.err # "" THEN c ELSE Res("", c.st, row.pk)

(* get_by_name: filter_by(name=name).one(); KeyError when no row has it *)
get_by_name(st, tbl, name) ==
    LET f == Autoflush(st) IN
    IF f.err # "" THEN f
    ELSE LET found == {r \in st.ses[tbl] : r.name = name} IN
         IF found = {} THEN Res("KeyError", st, 0)
         ELSE Res("", st, (CHOOSE r \in found : TRUE).pk)

(* _add *)
NameAdd(st, tbl, item, skip_commit) ==
    IF adding_item_must_not_have_pk(item) # ""
    THEN Res(adding_item_must_not_have_pk(item), st, 0)
    ELSE add_and_commit(st, tbl,
                        [pk |-> NextPk(st.ses[tbl]), name |-> item.name],
                        skip_commit)

(* get_or_create: get_by_name, and _add on KeyError; category.name of      *)
(* None raises AttributeError                                              *)
NameGetOrCreate(st, tbl, item, skip_commit) ==
    IF item = None THEN Res("AttributeError", st, 0)
    ELSE LET g == get_by_name(st, tbl, item.name) IN
         IF g.err = "KeyError" THEN NameAdd(st, tbl, item, skip_commit) ELSE g

(* _update *)
NameUpdate(st, tbl, item) ==
    IF item.pk = NULL THEN Res(NoPkError, st, 0)
    ELSE LET q == QueryGet(st, tbl, item.pk) IN
         IF q.err # "" THEN q
         ELSE IF q.ret = NULL THEN Res("KeyError", q.st, 0)
         ELSE LET renamed == {IF r.pk = item.pk THEN [r EXCEPT !.name = item.name]
                                                 ELSE r : r \in st.ses[tbl]}
                  c == Commit(SetTable(st, tbl, renamed))
              IN IF c.err = "IntegrityError" THEN Res(CommitError, c.st, 0)
                 ELSE IF c.err # "" THEN c
                 ELSE Res("", c.st, item.pk)

(* session.delete of a row; deleting a Category sets the category of the   *)
(* Activities that reference it to NULL (relationship with no delete       *)
(* cascade)                                                                *)
SessionDelete(st, tbl, pk) ==
    LET t == st.ses
        rows == {r \in t[tbl] : r.pk # pk}
        acts == IF tbl = "cats"
                THEN {IF a.category = pk THEN [a EXCEPT !.category = NULL] ELSE a
                      : a \in t.acts}
                ELSE t.acts
    IN St([[t EXCEPT ![tbl] = rows] EXCEPT !.acts =
              IF tbl = "acts" THEN rows ELSE acts],
          st.db, st.inactive)

(* remove *)
NameRemove(st, tbl, item) ==
    IF item.pk = NULL THEN Res(NoPkError, st, 0)
    ELSE LET q == QueryGet(st, tbl, item.pk) IN
         IF q.err # "" THEN q
         ELSE IF q.ret = NULL THEN Res("KeyError", q.st, 0)
         ELSE Commit(SessionDelete(st, tbl, item.pk))

(* an as_hamster that does not carry the name over *)
as_hamster_PkOnly(row) == [pk |-> row.pk, name |-> ""]

(* AlchemyCategory.as_hamster: Category(pk=self.pk, name=self.name) *)
as_hamster(row) == [pk |-> row.pk, name |-> row.name]

(* equal_fields: equality over all fields except pk *)
equal_fields(x, y) == [x EXCEPT !.pk = NULL] = [y EXCEPT !.pk = NULL]

(* get (deleted=None) *)
NameGet(st, tbl, pk) ==
    LET q == QueryGet(st, tbl, pk) IN
    IF q.err # "" THEN q
    ELSE IF q.ret = NULL THEN Res("KeyError", q.st, 0)
    ELSE q

(* ---- ActivityManager ---- *)

(* get_by_composite: the category is looked up by name (KeyError when it   *)
(* does not exist), then filter_by(name).filter_by(category).one()         *)
get_by_composite(st, name, category) ==
    LET g == IF category # None THEN get_by_name(st, "cats", category.name)
                                ELSE Res("", st, NULL)
    IN IF g.err # "" THEN g
       ELSE LET f == Autoflush(g.st) IN
            IF f.err # "" THEN f
            ELSE LET found == {a \in st.ses.acts :
                                   a.name = name /\ a.category = g.ret}
                 IN IF found = {} THEN Res("KeyError", st, 0)
                    ELSE IF Cardinality(found) > 1
                         THEN Res("MultipleResultsFound", st, 0)
                    ELSE Res("", st, (CHOOSE a \in found : TRUE).pk)

(* the composite check of _add and _update: ValueError when the            *)
(* name/category combination is found, go on when KeyError                 *)
CompositeTaken(st, activity) ==
    LET c == get_by_composite(st, activity.name, activity.category) IN
    IF c.err = "" THEN Res(TakenError, c.st, 0)
    ELSE IF c.err = "KeyError" THEN Res("", c.st, 0)
    ELSE c

(* _add *)
ActAdd(st, activity) ==
    IF activity.pk # NULL THEN Res(HasPkError, st, 0)
    ELSE LET t == CompositeTaken(st, activity) IN
    IF t.err # "" THEN t
    ELSE LET g == IF activity.category # None
                  THEN get_by_name(st, "cats", activity.category.name)
                  ELSE Res("", st, NULL)
         IN
    IF g.err \notin {"", "KeyError"} THEN g
    ELSE LET newcat == g.err = "KeyError"
             catpk == IF newcat THEN NextPk(st.ses.cats) ELSE g.ret
             cats == IF newcat
                     THEN st.ses.cats \cup
                              {[pk |-> catpk, name |-> activity.category.name]}
                     ELSE st.ses.cats
             row == [pk |-> NextPk(st.ses.acts), name |-> activity.name,
                     category |-> catpk, deleted |-> activity.deleted]
             c == Commit(SetTable(SetTable(st, "cats", cats),
                                  "acts", st.ses.acts \cup {row}))
         IN IF c.err # "" THEN c ELSE Res("", c.st, row.pk)

(* _update *)
ActUpdate(st, activity) ==
    IF activity.pk = NULL THEN Res(NoPkError, st, 0)
    ELSE LET t == CompositeTaken(st, activity) IN
    IF t.err # "" THEN t
    ELSE LET q == QueryGet(st, "acts", activity.pk) IN
    IF q.err # "" THEN q
    ELSE IF q.ret = NULL THEN Res("KeyError", q.st, 0)
    ELSE LET named == SetTable(st, "acts",
                 {IF a.pk = activity.pk THEN [a EXCEPT !.name = activity.name]
                                        ELSE a : a \in st.ses.acts})
             gc == NameGetOrCreate(named, "cats", activity.category, FALSE)
         IN
    IF gc.err # "" THEN gc
    ELSE LET c == Commit(SetTable(gc.st, "acts",
                 {IF a.pk = activity.pk
                  THEN [a EXCEPT !.category = gc.ret,
                                 !.deleted = activity.deleted]
                  ELSE a : a \in gc.st.ses.acts}))
         IN IF c.err = "IntegrityError" THEN Res(CommitError, c.st, 0)
            ELSE IF c.err # "" THEN c
            ELSE Res("", c.st, activity.pk)

(* the AlchemyActivity of a row, as remove passes it to _update *)
AlchemyActivity(t, row) ==
    [pk |-> row.pk, name |-> row.name,
     category |-> IF row.category = NULL THEN None
                  ELSE [pk |-> row.category,
                        name |-> Row(t.cats, row.category).name],
     deleted |-> row.deleted]

(* a remove that looks the row up without checking the pk first *)
ActRemove_LookupFirst(st, activity) ==
    LET q == QueryGet(st, "acts", activity.pk) IN
    IF q.err # "" THEN q
    ELSE IF q.ret = NULL THEN Res("KeyError", q.st, 0)
    ELSE LET c == Commit(SessionDelete(q.st, "acts", activity.pk)) IN
         IF c.err # "" THEN c ELSE Res("", c.st, 1)

(* remove: an activity with facts is flagged deleted and passed to         *)
(* _update, one without facts is deleted; True is returned as 1            *)
ActRemove(st, activity) ==
    IF activity.pk = NULL THEN Res(NoPkError, st, 0)
    ELSE LET q == QueryGet(st, "acts", activity.pk) IN
    IF q.err # "" THEN q
    ELSE IF q.ret = NULL THEN Res("KeyError", q.st, 0)
    ELSE LET f == Autoflush(st) IN
    IF f.err # "" THEN f
    ELSE IF \E x \in st.ses.facts : x.activity = activity.pk
    THEN LET flagged == SetTable(st, "acts",
                 {IF a.pk = activity.pk THEN [a EXCEPT !.deleted = TRUE]
                                        ELSE a : a \in st.ses.acts})
             u == ActUpdate(flagged,
                      AlchemyActivity(flagged.ses,
                                      Row(flagged.ses.acts, activity.pk)))
         IN IF u.err # "" THEN u
            ELSE LET c == Commit(u.st) IN
                 IF c.err # "" THEN c ELSE Res("", c.st, 1)
    ELSE LET c == Commit(SessionDelete(st, "acts", activity.pk)) IN
         IF c.err # "" THEN c ELSE Res("", c.st, 1)

(* get *)
ActGet(st, pk) == NameGet(st, "acts", pk)

(* get_or_create: get_by_composite, and _add on KeyError *)
ActGetOrCreate(st, activity) ==
    LET c == get_by_composite(st, activity.name, activity.category) IN
    IF c.err = "KeyError" THEN ActAdd(st, activity) ELSE c

(* ---- FactManager ---- *)
(* A fact's end is NoEnd while it is ongoing; an open end compares as      *)
(* +infinity.                                                              *)
NoEnd == -1

Infinity == MaxTime + 1

(* an open end taken as the latest time instead of +infinity *)
EndEffective_Now(end) == IF end = NoEnd THEN MaxTime ELSE end

EndEffective(end) == IF end = NoEnd THEN Infinity ELSE end

Windows == {w \in [start : Times, end : Times \cup {NoEnd}] :
                w.end = NoEnd \/ w.start <= w.end}

(* the activities a fact is given: "a" with no category or in category    *)
(* "a", unkeyed, not deleted                                               *)
FactActivities == {a \in Activities :
                       /\ a.pk = NULL /\ ~a.deleted /\ a.name = "a"
                       /\ a.category \in {None, [pk |-> NULL, name |-> "a"]}}

(* Fact(pk, activity, start, end), its end not before its start *)
Facts == {x \in [pk : ArgPks, activity : FactActivities, start : Times,
                 end : Times \cup {NoEnd}] :
              [start |-> x.start, end |-> x.end] \in Windows}

(* a window check that compares only the start times *)
is_window_free_StartOnly(facts, start, end, exclude_pk) ==
    ~ \E F \in facts : F.pk # exclude_pk /\ F.start = start

(* a window check on closed intervals: touching windows conflict *)
is_window_free_Closed(facts, start, end, exclude_pk) ==
    ~ \E F \in facts :
        /\ F.pk # exclude_pk
        /\ start <= EndEffective(F.end)
        /\ F.start <= EndEffective(end)

(* is_window_free(start, end, exclude_pk) *)
is_window_free(facts, start, end, exclude_pk) ==
    ~ \E F \in facts :
        /\ F.pk # exclude_pk
        /\ start < EndEffective(F.end)
        /\ F.start < EndEffective(end)

(* an add that resolves the activity before it checks the window *)
FactAdd_CascadeFirst(st, fact) ==
    IF fact.pk # NULL THEN Res(HasPkError, st, 0)
    ELSE LET a == ActGetOrCreate(st, fact.activity) IN
    IF a.err # "" THEN a
    ELSE IF ~is_window_free(a.st.ses.facts, fact.start, fact.end, NULL)
    THEN Res(OccupiedError, a.st, 0)
    ELSE LET row == [pk |-> NextPk(a.st.ses.facts), activity |-> a.ret,
                     start |-> fact.start, end |-> fact.end]
             c == Commit(SetTable(a.st, "facts", a.st.ses.facts \cup {row}))
         IN IF c.err # "" THEN c ELSE Res("", c.st, row.pk)

(* add: the overlap check comes before anything is persisted, then         *)
(* get_or_create of the activity and the insert                            *)
FactAdd(st, fact) ==
    IF fact.pk # NULL THEN Res(HasPkError, st, 0)
    ELSE IF ~is_window_free(st.ses.facts, fact.start, fact.end, NULL)
    THEN Res(OccupiedError, st, 0)
    ELSE LET a == ActGetOrCreate(st, fact.activity) IN
    IF a.err # "" THEN a
    ELSE LET row == [pk |-> NextPk(a.st.ses.facts), activity |-> a.ret,
                     start |-> fact.start, end |-> fact.end]
             c == Commit(SetTable(a.st, "facts", a.st.ses.facts \cup {row}))
         IN IF c.err # "" THEN c ELSE Res("", c.st, row.pk)

(* the tags of a fact, each resolved by TagManager.get_or_create with the  *)
(* commit delayed (skip_commit); the first error ends the cascade          *)
RECURSIVE TagsGetOrCreate(_, _)
TagsGetOrCreate(st, tags) ==
    IF tags = <<>> THEN Res("", st, 0)
    ELSE LET g == NameGetOrCreate(st, "tags", Head(tags), TRUE) IN
         IF g.err # "" THEN g ELSE TagsGetOrCreate(g.st, Tail(tags))

(* add of a fact with tags: overlap check, get_or_create of the activity   *)
(* (ActivityManager._add commits), get_or_create of each tag, the insert   *)
(* and the commit                                                          *)
FactAddTags(st, fact, tags) ==
    IF fact.pk # NULL THEN Res(HasPkError, st, 0)
    ELSE IF ~is_window_free(st.ses.facts, fact.start, fact.end, NULL)
    THEN Res(OccupiedError, st, 0)
    ELSE LET a == ActGetOrCreate(st, fact.activity) IN
    IF a.err # "" THEN a
    ELSE LET t == TagsGetOrCreate(a.st, tags) IN
    IF t.err # "" THEN t
    ELSE LET row == [pk |-> NextPk(t.st.ses.facts), activity |-> a.ret,
                     start |-> fact.start, end |-> fact.end]
             c == Commit(SetTable(t.st, "facts", t.st.ses.facts \cup {row}))
         IN IF c.err # "" THEN c ELSE Res("", c.st, row.pk)

(* an update whose overlap check leaves no row out *)
FactUpdate_NoExclude(st, fact) ==
    IF fact.pk = NULL THEN Res(NoPkError, st, 0)
    ELSE IF ~is_window_free(st.ses.facts, fact.start, fact.end, NULL)
    THEN Res(OccupiedError, st, 0)
    ELSE LET q == QueryGet(st, "facts", fact.pk) IN
    IF q.err # "" THEN q
    ELSE IF q.ret = NULL THEN Res("KeyError", q.st, 0)
    ELSE LET a == ActGetOrCreate(st, fact.activity) IN
    IF a.err # "" THEN a
    ELSE LET c == Commit(SetTable(a.st, "facts",
                 {IF x.pk = fact.pk
                  THEN [x EXCEPT !.activity = a.ret, !.start = fact.start,
                                 !.end = fact.end]
                  ELSE x : x \in a.st.ses.facts}))
         IN IF c.err # "" THEN c ELSE Res("", c.st, fact.pk)

(* update: as add, the fact's own row left out of the overlap check *)
FactUpdate(st, fact) ==
    IF fact.pk = NULL THEN Res(NoPkError, st, 0)
    ELSE IF ~is_window_free(st.ses.facts, fact.start, fact.end, fact.pk)
    THEN Res(OccupiedError, st, 0)
    ELSE LET q == QueryGet(st, "facts", fact.pk) IN
    IF q.err # "" THEN q
    ELSE IF q.ret = NULL THEN Res("KeyError", q.st, 0)
    ELSE LET a == ActGetOrCreate(st, fact.activity) IN
    IF a.err # "" THEN a
    ELSE LET c == Commit(SetTable(a.st, "facts",
                 {IF x.pk = fact.pk
                  THEN [x EXCEPT !.activity = a.ret, !.start = fact.start,
                                 !.end = fact.end]
                  ELSE x : x \in a.st.ses.facts}))
         IN IF c.err # "" THEN c ELSE Res("", c.st, fact.pk)

(* remove: physical delete *)
FactRemove(st, fact) ==
    IF fact.pk = NULL THEN Res(NoPkError, st, 0)
    ELSE LET q == QueryGet(st, "facts", fact.pk) IN
    IF q.err # "" THEN q
    ELSE IF q.ret = NULL THEN Res("KeyError", q.st, 0)
    ELSE LET c == Commit(SessionDelete(st, "facts", fact.pk)) IN
         IF c.err # "" THEN c ELSE Res("", c.st, 1)

(* ---- get_all: sorting ---- *)
(* A query's ORDER BY is the sequence of <<column, direction>> it was      *)
(* given by order_by; get_all returns it in ret.                           *)
SortCols == {"", "name", "activity", "category", "tag", "fact", "start",
             "usage", "time", "other"}

SortOrders == {"", "asc", "desc"}

MaxSortCols == 2

SortColLists == UNION {[1..n -> SortCols] : n \in 0..MaxSortCols}

SortOrderLists == {<<>>} \cup {<<o>> : o \in SortOrders}

(* the columns that need the Fact join or an aggregate *)
AggCols == {"start", "usage", "time"}

(* query_sort_order_at_index, idx counted from 1 *)
query_sort_order_at_index(sort_orders, idx) ==
    IF idx <= Len(sort_orders) /\ sort_orders[idx] = "desc" THEN "desc"
    ELSE "asc"

(* _get_all_order_by_col_common; has_aggs: count_col and time_col are not  *)
(* None; target "" is None                                                 *)
get_all_order_by_col_common(order, sort_col, direction, default, has_aggs) ==
    LET named(col) == sort_col = col \/ (default = col /\ sort_col \in {"name", ""})
        check_aggs == sort_col \in AggCols
        target == IF sort_col = "start" THEN "start"
                  ELSE IF sort_col \in {"usage", "time"}
                  THEN (IF has_aggs THEN sort_col ELSE "")
                  ELSE IF named("activity") THEN "activity"
                  ELSE IF named("category") THEN "category"
                  ELSE IF named("tag") THEN "tag"
                  ELSE ""
    IN IF target # "" /\ check_aggs /\ ~has_aggs THEN order
       ELSE IF target = "" THEN order
       ELSE Append(order, <<target, direction>>)

(* BaseAlchemyManager._get_all_order_by, from the idx-th column on *)
RECURSIVE get_all_order_by(_, _, _, _, _, _)
get_all_order_by(order, sort_cols, sort_orders, idx, default, has_aggs) ==
    IF idx > Len(sort_cols) THEN order
    ELSE get_all_order_by(
             get_all_order_by_col_common(
                 order, sort_cols[idx],
                 query_sort_order_at_index(sort_orders, idx), default, has_aggs),
             sort_cols, sort_orders, idx + 1, default, has_aggs)

(* query.all(): autoflush, then the rows in the query's order *)
QueryAll(st, order) ==
    LET f == Autoflush(st) IN
    IF f.err # "" THEN Res(f.err, f.st, <<>>) ELSE Res("", f.st, order)

(* CategoryManager._get_all with no key and no filter: a sort column of    *)
(* AggCols turns include_usage on; the starting query is assigned only for *)
(* the plain case and for include_usage                                    *)
CatGetAll(st, requested_usage, sort_cols, sort_orders) ==
    LET include_usage ==
            requested_usage \/ \E i \in DOMAIN sort_cols : sort_cols[i] \in AggCols
        plain == ~include_usage /\ ~\E i \in DOMAIN sort_cols : sort_cols[i] = "activity"
    IN IF ~plain /\ ~include_usage THEN Res("UnboundLocalError", st, <<>>)
       ELSE QueryAll(st, get_all_order_by(<<>>, sort_cols, sort_orders, 1,
                                          "category", include_usage))

(* an _get_all_order_by that orders ascending whatever the sort_order *)
ActGetAllOrderBy_Asc(sort_col, sort_order, include_usage) ==
    IF sort_col = "category"
    THEN [err |-> "", order |-> <<<<"category", "asc">>, <<"activity", "asc">>>>]
    ELSE IF sort_col \in {"start", "usage"}
    THEN IF ~include_usage THEN [err |-> "AssertionError", order |-> <<>>]
         ELSE [err |-> "", order |-> <<<<sort_col, "asc">>>>]
    ELSE IF sort_col \notin {"", "name", "activity", "tag", "fact"}
    THEN [err |-> "AssertionError", order |-> <<>>]
    ELSE [err |-> "", order |-> <<<<"activity", "asc">>, <<"category", "asc">>>>]

(* ActivityManager._get_all_order_by: its asserts raise AssertionError *)
ActGetAllOrderBy(sort_col, sort_order, include_usage) ==
    LET direction == IF sort_order = "desc" THEN "desc" ELSE "asc"
        agg_direction == IF sort_order = "" THEN "desc" ELSE direction
    IN IF sort_col = "category"
       THEN [err |-> "", order |-> <<<<"category", direction>>,
                                     <<"activity", direction>>>>]
       ELSE IF sort_col = "start"
       THEN IF ~include_usage THEN [err |-> "AssertionError", order |-> <<>>]
            ELSE [err |-> "", order |-> <<<<"start", agg_direction>>>>]
       ELSE IF sort_col = "usage"
       THEN IF ~include_usage THEN [err |-> "AssertionError", order |-> <<>>]
            ELSE [err |-> "", order |-> <<<<"usage", agg_direction>>>>]
       ELSE IF sort_col \notin {"", "name", "activity", "tag", "fact"}
       THEN [err |-> "AssertionError", order |-> <<>>]
       ELSE [err |-> "", order |-> <<<<"activity", direction>>,
                                     <<"category", direction>>>>]

(* ActivityManager._get_all with no filter *)
ActGetAllQuery(st, include_usage, sort_col, sort_order) ==
    LET o == ActGetAllOrderBy(sort_col, sort_order, include_usage) IN
    IF o.err # "" THEN Res(o.err, st, <<>>) ELSE QueryAll(st, o.order)

(* ActivityManager.get_all and get_all_by_usage *)
ActGetAll(st, by_usage, sort_col, sort_order) ==
    ActGetAllQuery(st, by_usage,
                   IF sort_col # "" THEN sort_col
                   ELSE IF by_usage THEN "usage" ELSE "name",
                   sort_order)

(* ---- get_all: the time-range filter ---- *)
(* since and until are times or NoTime (None); a datetime is always true   *)
(* in "if since".  A comparison with the NULL end of an ongoing fact is    *)
(* NULL, and a filter keeps only the rows for which it is true.            *)
NoTime == NoEnd

Ranges == {r \in [since : Times \cup {NoTime}, until : Times \cup {NoTime}] :
              r.since = NoTime \/ r.until = NoTime \/ r.since <= r.until}

(* func.datetime(column) >= bound, and <= bound, as a filter *)
SqlGe(col, bound) == col # NoEnd /\ col >= bound

SqlLe(col, bound) == col # NoEnd /\ col <= bound

(* _get_partial_overlaps *)
get_partial_overlaps(rows, since, until) ==
    IF since # NoTime /\ until = NoTime
    THEN {F \in rows : SqlGe(F.start, since) \/ SqlGe(F.end, since)}
    ELSE IF since = NoTime /\ until # NoTime
    THEN {F \in rows : SqlLe(F.start, until) \/ SqlLe(F.end, until)}
    ELSE IF since # NoTime /\ until # NoTime
    THEN {F \in rows : \/ SqlGe(F.start, since) /\ SqlLe(F.start, until)
                       \/ SqlGe(F.end, since) /\ SqlLe(F.end, until)}
    ELSE rows

(* _get_complete_overlaps *)
get_complete_overlaps(rows, since, until, endless) ==
    LET a == IF since # NoTime THEN {F \in rows : SqlGe(F.start, since)}
             ELSE rows
    IN IF until # NoTime THEN {F \in a : SqlLe(F.end, until)}
       ELSE IF endless THEN {F \in a : F.end = NoEnd}
       ELSE a

(* get_all_filter_partial *)
get_all_filter_partial(rows, since, until, endless, partial) ==
    IF partial THEN get_partial_overlaps(rows, since, until)
    ELSE get_complete_overlaps(rows, since, until, endless)

(* ---- get_all: the rows of the Activity manager's query ---- *)
(* the category argument: False (no filter), None, or a Category *)
NoFilter == [pk |-> NULL, name |-> "False"]

CategoryFilters == {NoFilter, None} \cup NameItems

(* names and search terms are spelled as sequences of characters *)
Words == {"", "a", "b", "A", "ab", "ba", "Ab"}

Spell(w) ==
    CASE w = "" -> <<>>
      [] w = "a" -> <<"a">>
      [] w = "b" -> <<"b">>
      [] w = "A" -> <<"A">>
      [] w = "ab" -> <<"a", "b">>
      [] w = "ba" -> <<"b", "a">>
      [] w = "Ab" -> <<"A", "b">>

Lower(c) == IF c = "A" THEN "a" ELSE IF c = "B" THEN "b" ELSE c

(* name ILIKE '%term%' *)
ILike(name, term) ==
    LET n == Spell(name)
        t == Spell(term)
    IN \E i \in 0..(Len(n) - Len(t)) :
           \A j \in 1..Len(t) : Lower(n[i + j]) = Lower(t[j])

(* the number of facts of activity a *)
Uses(t, a) == Cardinality({f \in t.facts : f.activity = a.pk})

(* _get_all_query: activities JOIN categories, and with include_usage      *)
(* facts JOIN activities JOIN categories; an inner join keeps the rows     *)
(* that have a partner                                                     *)
ActGetAllStartQuery(t, include_usage) ==
    LET joined == {a \in t.acts : a.category # NULL /\ HasPk(t.cats, a.category)}
    IN IF include_usage THEN {a \in joined : Uses(t, a) > 0} ELSE joined

(* ActivityManager._get_all_filter_by_category *)
ActGetAllFilterByCategory(t, rows, category) ==
    IF category = NoFilter THEN rows
    ELSE LET alchemy_category ==
                 IF category # None /\ HasPk(t.cats, category.pk)
                 THEN category.pk ELSE NULL
         IN {a \in rows : a.category = alchemy_category}

(* ActivityManager._get_all_filter_by_search_term *)
ActGetAllFilterBySearchTerm(rows, search_term) ==
    IF search_term = "" THEN rows
    ELSE {a \in rows : ILike(a.name, search_term)}

(* the activity rows ActivityManager._get_all selects from the tables t *)
ActGetAllRows(t, include_usage, category, search_term) ==
    ActGetAllFilterBySearchTerm(
        ActGetAllFilterByCategory(t, ActGetAllStartQuery(t, include_usage),
                                  category),
        search_term)

(* CategoryManager._get_all_filter_by_search_term: one ILIKE for each       *)
(* element of search_term, joined by OR; the elements of a string are its  *)
(* characters                                                              *)
CatGetAllFilterBySearchTerm(rows, search_term) ==
    IF search_term = "" THEN rows
    ELSE {c \in rows : \E i \in DOMAIN Spell(search_term) :
                           ILike(c.name, Spell(search_term)[i])}

(* the category rows CategoryManager._get_all selects with no usage, no    *)
(* time range and no activity or category filter                           *)
CatGetAllRows(t, search_term) == CatGetAllFilterBySearchTerm(t.cats, search_term)

(* the number of facts whose activity is of category c *)
CatUses(t, c) ==
    Cardinality({f \in t.facts :
                    \E a \in t.acts : a.pk = f.activity /\ a.category = c.pk})

(* CategoryManager._get_all_start_query: the categories table, and with    *)
(* include_usage facts JOIN activities JOIN categories, grouped by         *)
(* category                                                                *)
CatGetAllStartQuery(t, include_usage) ==
    IF include_usage THEN {c \in t.cats : CatUses(t, c) > 0} ELSE t.cats

(* the category rows CategoryManager._get_all selects, with usage or not *)
CatGetAllUsageRows(t, include_usage, search_term) ==
    CatGetAllFilterBySearchTerm(CatGetAllStartQuery(t, include_usage), search_term)

(* ---- get_all: the ordered results of the Activity manager ---- *)
(* the place of a name in the collation (BINARY: capitals first) *)
NameRank(n) ==
    CASE n = "A" -> 1
      [] n = "Ab" -> 2
      [] n = "a" -> 3
      [] n = "ab" -> 4
      [] n = "b" -> 5
      [] n = "ba" -> 6
      [] OTHER -> 0

(* CategoryManager._get_all(search_term=...), sorted by name: what it may  *)
(* return                                                                  *)
CatGetAllSearch(st, search_term) ==
    LET r == CatGetAll(st, FALSE, <<"name">>, <<>>) IN
    IF r.err # "" THEN r
    ELSE Res("", r.st, {q \in [1..Cardinality(CatGetAllRows(r.st.ses, search_term))
                                  -> CatGetAllRows(r.st.ses, search_term)] :
                           \A i, j \in DOMAIN q :
                               i < j => NameRank(q[i].name) <= NameRank(q[j].name)
                                        /\ q[i] # q[j]})

(* the value ORDER BY compares for activity a; the start of a group of     *)
(* facts is whichever row the database picks, so it orders nothing         *)
SortKey(t, a, col) ==
    CASE col = "usage" -> Uses(t, a)
      [] col = "activity" -> NameRank(a.name)
      [] col = "category" -> NameRank(Row(t.cats, a.category).name)
      [] OTHER -> 0

(* x may come before y under the ORDER BY keys from the i-th on *)
RECURSIVE MayPrecede(_, _, _, _, _)
MayPrecede(t, x, y, order, i) ==
    IF i > Len(order) THEN TRUE
    ELSE LET kx == SortKey(t, x, order[i][1])
             ky == SortKey(t, y, order[i][1])
         IN IF kx = ky THEN MayPrecede(t, x, y, order, i + 1)
            ELSE IF order[i][2] = "desc" THEN kx > ky ELSE kx < ky

(* the sequences query.all() may return: the rows, each once, in an order  *)
(* the ORDER BY allows                                                     *)
Ordered(t, rows, order) ==
    {q \in [1..Cardinality(rows) -> rows] :
        /\ \A i, j \in DOMAIN q : i # j => q[i] # q[j]
        /\ \A i, j \in DOMAIN q : i < j => MayPrecede(t, q[i], q[j], order, 1)}

(* ActivityManager.get_all_by_usage: what it may return, the activities    *)
(* paired with their counts; {} when it raises                             *)
ActGetAllByUsage(t, category, search_term, sort_col, sort_order) ==
    LET o == ActGetAllOrderBy(IF sort_col = "" THEN "usage" ELSE sort_col,
                              sort_order, TRUE)
    IN IF o.err # "" THEN {}
       ELSE {[i \in DOMAIN q |-> <<q[i], Uses(t, q[i])>>] :
                q \in Ordered(t, ActGetAllRows(t, TRUE, category, search_term),
                              o.order)}

(* ActivityManager.get_all(search_term=...): what it may return *)
ActGetAllSearch(st, search_term) ==
    LET r == ActGetAll(st, FALSE, "", "") IN
    IF r.err # "" THEN r
    ELSE Res("", r.st,
             Ordered(r.st.ses,
                     ActGetAllRows(r.st.ses, FALSE, NoFilter, search_term),
                     r.ret))

(* ---- get_all: limit and offset ---- *)
(* None where a number may be given; in a condition None and 0 are false   *)
PyNone == -9

MaxPage == 2

PageArgs == {PyNone} \cup (-1..MaxPage)

Truthy(x) == x # PyNone /\ x # 0

(* a query with no LIMIT and no OFFSET *)
NewQuery == [err |-> "", limit |-> PyNone, offset |-> PyNone]

(* a version that compares before it tests for None: None > 0 raises *)
query_apply_limit_offset_Unguarded(query, limit, offset) ==
    IF limit = PyNone \/ offset = PyNone THEN [query EXCEPT !.err = "TypeError"]
    ELSE [query EXCEPT !.limit = IF limit > 0 THEN limit ELSE @,
                       !.offset = IF offset > 0 THEN offset ELSE @]

(* query_apply_limit_offset *)
query_apply_limit_offset(query, limit, offset) ==
    LET limited == IF Truthy(limit) /\ limit > 0
                   THEN [query EXCEPT !.limit = limit] ELSE query
    IN IF Truthy(offset) /\ offset > 0
       THEN [limited EXCEPT !.offset = offset] ELSE limited

(* the rows a query returns of the ordered rows q: OFFSET rows are left    *)
(* out, then at most LIMIT rows are taken                                  *)
Fetch(q, query) ==
    LET from == IF query.offset = PyNone THEN 1 ELSE query.offset + 1
        upto == IF query.limit = PyNone THEN Len(q)
                ELSE IF from + query.limit - 1 < Len(q)
                THEN from + query.limit - 1 ELSE Len(q)
    IN SubSeq(q, from, upto)

(* ActivityManager.get_all(limit=..., offset=...): what it may return *)
ActGetAllPaged(st, limit, offset) ==
    LET r == ActGetAll(st, FALSE, "", "")
        query == query_apply_limit_offset(NewQuery, limit, offset)
    IN IF r.err # "" THEN r
       ELSE IF query.err # "" THEN Res(query.err, st, {})
       ELSE Res("", r.st,
                {Fetch(q, query) :
                    q \in Ordered(r.st.ses,
                                  ActGetAllRows(r.st.ses, FALSE, NoFilter, ""),
                                  r.ret)})

(* ---- two callers of get_or_create ---- *)
(* Each caller has a session of its own on the one database.  A caller is  *)
(* idle, has missed the lookup of get_or_create ("missed"), or has passed  *)
(* the checks of ActivityManager._add and holds the rows to insert         *)
(* ("checked"); cat is the pk of the category it found, NULL for none,     *)
(* NewCat for one it is to insert.                                         *)
Procs == {1, 2}

NewCat == -1

RaceItems == {a \in NewActivities : a.pk = NULL}

Idle == [p \in Procs |-> [pc |-> "idle", kind |-> "", item |-> CHOOSE a \in RaceItems : TRUE,
                          cat |-> NULL]]

(* a session that has nothing pending: it sees the database *)
Fresh(d) == St(d, d, FALSE)

(* the lookup of get_or_create: get_by_name, get_by_composite *)
RaceLookup(d, kind, item) ==
    IF kind = "acts" THEN get_by_composite(Fresh(d), item.name, item.category)
    ELSE get_by_name(Fresh(d), kind, item.name)

(* the checks of ActivityManager._add: the composite check, then the       *)
(* lookup of the category by name; ret is the category found, or NewCat    *)
RaceActCheck(d, item) ==
    LET t == CompositeTaken(Fresh(d), item) IN
    IF t.err # "" THEN t
    ELSE IF item.category = None THEN Res("", t.st, NULL)
    ELSE LET g == get_by_name(Fresh(d), "cats", item.category.name) IN
         IF g.err = "KeyError" THEN Res("", g.st, NewCat)
         ELSE g

(* session.add and session.commit of ActivityManager._add: the INSERTs are *)
(* checked against the database as it is now                               *)
RaceActCommit(d, item, cat) ==
    LET catpk == IF cat = NewCat THEN NextPk(d.cats) ELSE cat
        cats == IF cat = NewCat
                THEN d.cats \cup {[pk |-> catpk, name |-> item.category.name]}
                ELSE d.cats
        row == [pk |-> NextPk(d.acts), name |-> item.name, category |-> catpk,
                deleted |-> item.deleted]
    IN Commit(St([d EXCEPT !.cats = cats, !.acts = d.acts \cup {row}], d, FALSE))

(* ---- the state machine ---- *)
Cur == St(ses, db, inactive)

Bounded(t) ==
    /\ \A r \in t.cats : r.pk <= MaxCats
    /\ \A r \in t.tags : r.pk <= MaxTags
    /\ \A r \in t.acts : r.pk <= MaxActs
    /\ \A r \in t.facts : r.pk <= MaxFacts

(* a call of manager mgr: the handler's result r becomes the store *)
Call(mgr, op, r) ==
    /\ Bounded(r.st.ses)
    /\ db' = r.st.db
    /\ ses' = r.st.ses
    /\ inactive' = r.st.inactive
    /\ last' = [mgr |-> mgr, op |-> op, err |-> r.err]
    /\ UNCHANGED race

(* the items remove is given: only their pk is read *)
Keyed(pk) == [pk |-> pk, name |-> CHOOSE n \in Names : TRUE]

KeyedActivity(pk) == [(CHOOSE a \in Activities : TRUE) EXCEPT !.pk = pk]

KeyedFact(pk) == [(CHOOSE x \in Facts : TRUE) EXCEPT !.pk = pk]

Init ==
    /\ db = EmptyTables
    /\ ses = EmptyTables
    /\ inactive = FALSE
    /\ last = [mgr |-> "", op |-> "", err |-> ""]
    /\ race = Idle

CategoryAdd ==
    \E c \in NameItems : Call("categories", "add", NameAdd(Cur, "cats", c, FALSE))

CategoryGetOrCreate ==
    \E c \in NameItems :
        Call("categories", "get_or_create", NameGetOrCreate(Cur, "cats", c, FALSE))

CategoryUpdate ==
    \E c \in NameItems : Call("categories", "update", NameUpdate(Cur, "cats", c))

CategoryRemove ==
    \E pk \in ArgPks :
        Call("categories", "remove", NameRemove(Cur, "cats", Keyed(pk)))

CategoryGet ==
    \E pk \in ArgPks : Call("categories", "get", NameGet(Cur, "cats", pk))

TagAdd ==
    \E c \in NameItems : Call("tags", "add", NameAdd(Cur, "tags", c, FALSE))

TagGetOrCreate ==
    \E c \in NameItems :
        Call("tags", "get_or_create", NameGetOrCreate(Cur, "tags", c, FALSE))

TagUpdate ==
    \E c \in NameItems : Call("tags", "update", NameUpdate(Cur, "tags", c))

TagRemove ==
    \E pk \in ArgPks : Call("tags", "remove", NameRemove(Cur, "tags", Keyed(pk)))

TagGet ==
    \E pk \in ArgPks : Call("tags", "get", NameGet(Cur, "tags", pk))

ActivityAdd ==
    \E a \in NewActivities : Call("activities", "add", ActAdd(Cur, a))

ActivityGetOrCreate ==
    \E a \in {n \in NewActivities : n.pk = NULL} :
        Call("activities", "get_or_create", ActGetOrCreate(Cur, a))

ActivityUpdate ==
    \E a \in Activities : Call("activities", "update", ActUpdate(Cur, a))

ActivityRemove ==
    \E pk \in ArgPks :
        Call("activities", "remove", ActRemove(Cur, KeyedActivity(pk)))

ActivityGet ==
    \E pk \in ArgPks : Call("activities", "get", ActGet(Cur, pk))

FactsAdd ==
    \E x \in Facts : Call("facts", "add", FactAdd(Cur, x))

FactsUpdate ==
    \E x \in Facts : Call("facts", "update", FactUpdate(Cur, x))

FactsRemove ==
    \E pk \in ArgPks : Call("facts", "remove", FactRemove(Cur, KeyedFact(pk)))

(* facts.add of an unkeyed fact that starts at 0 and is ongoing *)
FactsStart ==
    \E x \in Facts :
        /\ x.pk = NULL /\ x.start = 0 /\ x.end = NoEnd
        /\ Call("facts", "add", FactAdd(Cur, x))

Next ==
    \/ CategoryAdd \/ CategoryGetOrCreate \/ CategoryUpdate \/ CategoryRemove
    \/ CategoryGet
    \/ TagAdd \/ TagGetOrCreate \/ TagUpdate \/ TagRemove \/ TagGet
    \/ ActivityAdd \/ ActivityGetOrCreate \/ ActivityUpdate \/ ActivityRemove
    \/ ActivityGet
    \/ FactsAdd \/ FactsUpdate \/ FactsRemove

Spec == Init /\ [][Next]_vars

(* the Category and Tag managers alone *)
NextNames ==
    \/ CategoryAdd \/ CategoryGetOrCreate \/ CategoryUpdate \/ CategoryRemove
    \/ CategoryGet
    \/ TagAdd \/ TagGetOrCreate \/ TagUpdate \/ TagRemove \/ TagGet

SpecNames == Init /\ [][NextNames]_vars

(* the Activity manager, with ongoing facts started *)
NextActivity ==
    \/ ActivityAdd \/ ActivityGetOrCreate \/ ActivityUpdate \/ ActivityRemove
    \/ FactsStart

SpecActivity == Init /\ [][NextActivity]_vars

(* the Activity manager alone *)
NextActivityOnly ==
    ActivityAdd \/ ActivityGetOrCreate \/ ActivityUpdate \/ ActivityRemove

SpecActivityOnly == Init /\ [][NextActivityOnly]_vars

(* CategoryManager.remove among the Activity manager's calls *)
NextCategoryRemove ==
    \/ CategoryRemove
    \/ ActivityAdd \/ ActivityGetOrCreate \/ ActivityUpdate \/ ActivityRemove

SpecCategoryRemove == Init /\ [][NextCategoryRemove]_vars

(* the Fact manager alone *)
NextFacts == FactsAdd \/ FactsUpdate \/ FactsRemove

SpecFacts == Init /\ [][NextFacts]_vars

ActivityGetAll ==
    \E by_usage \in BOOLEAN, sort_col \in SortCols, sort_order \in SortOrders :
        Call("activities", "get_all", ActGetAll(Cur, by_usage, sort_col, sort_order))

CategoryGetAll ==
    \E include_usage \in BOOLEAN, sort_cols \in SortColLists,
       sort_orders \in SortOrderLists :
        Call("categories", "get_all",
             CatGetAll(Cur, include_usage, sort_cols, sort_orders))

(* get_all of the Activity and Category managers over a store that adds    *)
(* have filled                                                             *)
NextGetAll == ActivityAdd \/ CategoryAdd \/ ActivityGetAll \/ CategoryGetAll

SpecGetAll == Init /\ [][NextGetAll]_vars

(* stores for the usage queries: Category "a", up to three Activities with *)
(* distinct (name, category), and up to MaxUsageFacts Facts, one after the *)
(* other in time, each of one of the Activities                            *)
UsageActivities ==
    {[pk |-> 1, name |-> "a", category |-> 1, deleted |-> FALSE],
     [pk |-> 2, name |-> "b", category |-> 1, deleted |-> FALSE],
     [pk |-> 3, name |-> "a", category |-> NULL, deleted |-> FALSE]}

MaxUsageFacts == 3

UsageStore(acts, of) ==
    [cats |-> {[pk |-> 1, name |-> "a"]}, tags |-> {}, acts |-> acts,
     facts |-> {[pk |-> k, activity |-> of[k], start |-> k - 1, end |-> k] :
                   k \in DOMAIN of}]

UsageStores ==
    UNION {{UsageStore(acts, of) :
               of \in UNION {[1..n -> {a.pk : a \in acts}] :
                                n \in 0..MaxUsageFacts}} :
           acts \in (SUBSET UsageActivities) \ {{}}}

InitUsage ==
    /\ db \in UsageStores
    /\ ses = db
    /\ inactive = FALSE
    /\ last = [mgr |-> "", op |-> "", err |-> ""]
    /\ race = Idle

(* a call of a handler that adds no row: its result r becomes the store *)
Read(mgr, op, r) ==
    /\ db' = r.st.db
    /\ ses' = r.st.ses
    /\ inactive' = r.st.inactive
    /\ last' = [mgr |-> mgr, op |-> op, err |-> r.err]
    /\ UNCHANGED race

ActivityGetAllByUsage ==
    \E sort_col \in SortCols, sort_order \in SortOrders :
        Read("activities", "get_all_by_usage",
             ActGetAll(Cur, TRUE, sort_col, sort_order))

(* the usage queries over the stores of InitUsage *)
NextUsage == ActivityGetAllByUsage

SpecUsage == InitUsage /\ [][NextUsage]_vars

(* stores for the searches: up to two Categories and one Activity, their   *)
(* names any of Words                                                      *)
SearchNames == Words \ {""}

SearchStores ==
    LET catsets == {{}} \cup {{[pk |-> 1, name |-> n]} : n \in SearchNames}
                       \cup {{[pk |-> 1, name |-> p[1]], [pk |-> 2, name |-> p[2]]} :
                                p \in {x \in SearchNames \X SearchNames :
                                          x[1] # x[2]}}
        actsets(cats) ==
            {{}} \cup {{[pk |-> 1, name |-> n, category |-> c, deleted |-> FALSE]} :
                         n \in SearchNames, c \in {NULL} \cup {x.pk : x \in cats}}
    IN UNION {{[cats |-> cats, tags |-> {}, acts |-> acts, facts |-> {}] :
                  acts \in actsets(cats)} : cats \in catsets}

InitSearch ==
    /\ db \in SearchStores
    /\ ses = db
    /\ inactive = FALSE
    /\ last = [mgr |-> "", op |-> "", err |-> ""]
    /\ race = Idle

(* get_all(search_term=...) of the Activity manager *)
ActivitySearch ==
    \E search_term \in Words :
        Read("activities", "get_all", ActGetAllSearch(Cur, search_term))

(* _get_all(search_term=...) of the Category manager *)
CategorySearch ==
    \E search_term \in Words :
        Read("categories", "get_all", CatGetAllSearch(Cur, search_term))

NextSearch == ActivitySearch \/ CategorySearch

SpecSearch == InitSearch /\ [][NextSearch]_vars

ActivityGetAllPaged ==
    \E limit \in PageArgs, offset \in PageArgs :
        Read("activities", "get_all", ActGetAllPaged(Cur, limit, offset))

(* get_all with limit and offset over the stores of InitUsage *)
NextPaged == ActivityGetAllPaged

SpecPaged == InitUsage /\ [][NextPaged]_vars

(* a step of caller p ends its call with result r *)
RaceReturn(p, kind, r) ==
    /\ Bounded(r.st.db)
    /\ db' = r.st.db
    /\ ses' = r.st.db
    /\ inactive' = FALSE
    /\ last' = [mgr |-> kind, op |-> "get_or_create", err |-> r.err]
    /\ race' = [race EXCEPT ![p] = Idle[p]]

(* a step of caller p that leaves it at pc with category cat *)
RaceGoOn(p, kind, item, pc, cat) ==
    /\ race' = [race EXCEPT ![p] = [pc |-> pc, kind |-> kind, item |-> item,
                                    cat |-> cat]]
    /\ UNCHANGED <<db, ses, inactive, last>>

(* caller p calls get_or_create: the lookup finds the row, or misses *)
RaceCall(p) ==
    /\ race[p].pc = "idle"
    /\ \E kind \in {"cats", "tags", "acts"}, item \in RaceItems :
           /\ kind # "acts" => item.category = None
           /\ LET r == RaceLookup(db, kind, item) IN
              IF r.err = "KeyError" THEN RaceGoOn(p, kind, item, "missed", NULL)
              ELSE RaceReturn(p, kind, r)

(* caller p, its lookup missed, runs _add of a Category or Tag *)
RaceNameAdd(p) ==
    /\ race[p].pc = "missed" /\ race[p].kind # "acts"
    /\ RaceReturn(p, race[p].kind,
                  NameAdd(Fresh(db), race[p].kind, race[p].item, FALSE))

(* caller p, its lookup missed, runs the checks of ActivityManager._add *)
RaceActivityCheck(p) ==
    /\ race[p].pc = "missed" /\ race[p].kind = "acts"
    /\ LET r == RaceActCheck(db, race[p].item) IN
       IF r.err = "" THEN RaceGoOn(p, "acts", race[p].item, "checked", r.ret)
       ELSE RaceReturn(p, "acts", r)

(* caller p commits the rows of ActivityManager._add *)
RaceActivityCommit(p) ==
    /\ race[p].pc = "checked"
    /\ RaceReturn(p, "acts", RaceActCommit(db, race[p].item, race[p].cat))

NextRace ==
    \E p \in Procs :
        \/ RaceCall(p) \/ RaceNameAdd(p)
        \/ RaceActivityCheck(p) \/ RaceActivityCommit(p)

SpecRace == Init /\ [][NextRace]_vars

(* the tags a fact is given: none, or one Tag "a", unkeyed or with pk 1 *)
TagLists == {<<>>} \cup {<<t>> : t \in {n \in NameItems : n.pk <= 1 /\ n.name = "a"}}

(* facts.add of an unkeyed fact with its tags *)
FactsAddTagged ==
    \E x \in Facts, tags \in TagLists :
        /\ x.pk = NULL
        /\ Call("facts", "add", FactAddTags(Cur, x, tags))

(* FactManager.add of facts with tags, with reads and removes *)
NextCascade == FactsAddTagged \/ FactsRemove \/ TagGet \/ ActivityGet

SpecCascade == Init /\ [][NextCascade]_vars

(* ---- properties ---- *)

(* no two rows of an activities table have the same (name, category),      *)
(* category NULL included                                                  *)
ActivityUnique(rows) ==
    \A r1 \in rows, r2 \in rows :
        r1.pk # r2.pk => ~(r1.name = r2.name /\ r1.category = r2.category)

(* C1: in every state reached by ActivityManager add, update, remove and   *)
(* get_or_create calls, failed ones included, no two distinct persisted    *)
(* Activities have the same (name, category) pair, category None included. *)
C1_ActivityUniqueness == ActivityUnique(db.acts)

(* the time points of a fact's half-open interval [start, end), an open    *)
(* end unbounded                                                           *)
Covers(F, t) == F.start <= t /\ (F.end = NoEnd \/ t < F.end)

FactsIntersect(F, G) == \E t \in Times : Covers(F, t) /\ Covers(G, t)

Ongoing(facts) == {F \in facts : F.end = NoEnd}

(* C2: in every state reached by FactManager add, update and remove calls, *)
(* the half-open intervals [start, end-or-unbounded) of any two distinct   *)
(* persisted Facts do not intersect.                                       *)
C2_FactNoOverlap ==
    \A F \in db.facts, G \in db.facts : F.pk # G.pk => ~FactsIntersect(F, G)

(* an add went through that left two facts persisted back to back *)
C2_Witness ==
    /\ last = [mgr |-> "facts", op |-> "add", err |-> ""]
    /\ \E F \in db.facts, G \in db.facts :
           F.start < F.end /\ F.end = G.start /\ G.end # G.start

(* C3: at most one persisted Fact is open-ended; an add, or an update of a *)
(* persisted Fact, that would make a second Fact open-ended fails with the *)
(* "timeframe occupied" ValueError whatever its start, and leaves the      *)
(* store as it was.                                                        *)
C3_SingleOngoing ==
    /\ Cardinality(Ongoing(db.facts)) <= 1
    /\ \A x \in Facts :
           (x.end = NoEnd /\ \E F \in Ongoing(db.facts) : F.pk # x.pk) =>
               /\ x.pk = NULL => FactAdd(Cur, x) = Res(OccupiedError, Cur, 0)
               /\ HasPk(db.facts, x.pk) =>
                      FactUpdate(Cur, x) = Res(OccupiedError, Cur, 0)

(* an add was refused as occupied while an ongoing fact and a closed one   *)
(* are persisted: an open-ended add that starts before the ongoing fact,   *)
(* and making the closed fact open-ended, are both refused                 *)
C3_Witness ==
    /\ last = [mgr |-> "facts", op |-> "add", err |-> OccupiedError]
    /\ \E F \in Ongoing(db.facts), G \in db.facts, x \in Facts, y \in Facts :
           /\ G.end # NoEnd
           /\ x.pk = NULL /\ x.end = NoEnd /\ x.start < F.start
           /\ FactAdd(Cur, x).err = OccupiedError
           /\ y.pk = G.pk /\ y.end = NoEnd
           /\ FactUpdate(Cur, y).err = OccupiedError

NameTables == {"cats", "tags"}

(* C4: adding a Category or Tag whose name is that of a persisted one      *)
(* fails with ValueError and leaves the number of persisted rows as it     *)
(* was; the persisted Category names are pairwise distinct, and the Tag    *)
(* names.                                                                  *)
C4_DuplicateNameRefused ==
    /\ ~DupName(db.cats) /\ ~DupName(db.tags)
    /\ \A tbl \in NameTables, c \in NameItems :
           (c.pk = NULL /\ \E r \in db[tbl] : r.name = c.name) =>
               LET r == NameAdd(Cur, tbl, c, FALSE) IN
               /\ r.err \in ValueErrors
               /\ Cardinality(r.st.db[tbl]) = Cardinality(db[tbl])

(* C5: for every manager, add of an item whose pk is set, and update or    *)
(* remove of an item whose pk is unset, fail with ValueError before any    *)
(* lookup or write: the session and the persisted rows are as they were,   *)
(* whatever state the session is in.                                       *)
C5_PkPreconditions ==
    /\ \A tbl \in NameTables, c \in NameItems :
           /\ c.pk # NULL => NameAdd(Cur, tbl, c, FALSE) = Res(HasPkError, Cur, 0)
           /\ c.pk = NULL =>
                  /\ NameUpdate(Cur, tbl, c) = Res(NoPkError, Cur, 0)
                  /\ NameRemove(Cur, tbl, c) = Res(NoPkError, Cur, 0)
    /\ \A a \in Activities :
           /\ a.pk # NULL => ActAdd(Cur, a) = Res(HasPkError, Cur, 0)
           /\ a.pk = NULL =>
                  /\ ActUpdate(Cur, a) = Res(NoPkError, Cur, 0)
                  /\ ActRemove(Cur, a) = Res(NoPkError, Cur, 0)
    /\ \A x \in Facts :
           /\ x.pk # NULL => FactAdd(Cur, x) = Res(HasPkError, Cur, 0)
           /\ x.pk = NULL =>
                  /\ FactUpdate(Cur, x) = Res(NoPkError, Cur, 0)
                  /\ FactRemove(Cur, x) = Res(NoPkError, Cur, 0)

(* an update of an Activity without pk was refused while the session holds *)
(* a pending change that no flush would accept: a lookup would have failed *)
(* otherwise                                                               *)
C5_Witness ==
    /\ last = [mgr |-> "activities", op |-> "update", err |-> NoPkError]
    /\ ~inactive /\ Violates(ses) /\ db.acts # {}

(* the Activity argument a names the (name, category) pair of row r *)
SameKey(t, a, r) ==
    /\ r.name = a.name
    /\ IF a.category = None THEN r.category = NULL
       ELSE /\ r.category # NULL
            /\ Row(t.cats, r.category).name = a.category.name

(* the call's result leaves row pk of table tbl stored and visible as it   *)
(* is persisted now                                                        *)
RowKept(r, tbl, pk) ==
    /\ HasPk(r.st.db[tbl], pk) /\ Row(r.st.db[tbl], pk) = Row(db[tbl], pk)
    /\ HasPk(r.st.ses[tbl], pk)
    /\ Row(r.st.ses[tbl], pk).name = Row(db[tbl], pk).name

(* C6: updating a persisted Category, Tag or Activity so that its name (or *)
(* name and category) equals that of another persisted one fails with      *)
(* ValueError, and the row being updated keeps its old name and category,  *)
(* in the tables and in what a later get sees.                             *)
C6_UpdateCollisionRefused ==
    /\ \A tbl \in NameTables, c \in NameItems :
           (/\ HasPk(db[tbl], c.pk)
            /\ \E o \in db[tbl] : o.pk # c.pk /\ o.name = c.name) =>
               LET r == NameUpdate(Cur, tbl, c) IN
               r.err \in ValueErrors /\ RowKept(r, tbl, c.pk)
    /\ \A a \in Activities :
           (/\ HasPk(db.acts, a.pk)
            /\ \E o \in db.acts : o.pk # a.pk /\ SameKey(db, a, o)) =>
               LET r == ActUpdate(Cur, a) IN
               /\ r.err \in ValueErrors /\ RowKept(r, "acts", a.pk)
               /\ Row(r.st.ses.acts, a.pk).category = Row(db.acts, a.pk).category

(* C7: ActivityManager update raises the conflict ValueError only when the *)
(* new (name, category) belongs to another Activity; updating a persisted  *)
(* Activity whose (name, category) is unchanged succeeds and returns the   *)
(* Activity with the same pk.                                              *)
C7_UpdateUnchangedKeySucceeds ==
    \A a \in Activities :
        HasPk(db.acts, a.pk) =>
            LET r == ActUpdate(Cur, a) IN
            /\ r.err \in {TakenError, CommitError} =>
                   \E o \in db.acts : o.pk # a.pk /\ SameKey(db, a, o)
            /\ SameKey(db, a, Row(db.acts, a.pk)) => r.err = "" /\ r.ret = a.pk

(* C8: update of a Category, Tag or Activity whose pk is set but is no     *)
(* persisted row's fails with KeyError, whatever name and category the     *)
(* item carries, and the persisted rows are as they were.                  *)
C8_UpdateUnknownPk ==
    /\ \A tbl \in NameTables, c \in NameItems :
           (c.pk # NULL /\ ~HasPk(db[tbl], c.pk)) =>
               LET r == NameUpdate(Cur, tbl, c) IN
               r.err = "KeyError" /\ r.st.db = db
    /\ \A a \in Activities :
           (a.pk # NULL /\ ~HasPk(db.acts, a.pk)) =>
               LET r == ActUpdate(Cur, a) IN
               r.err = "KeyError" /\ r.st.db = db

(* C9: remove of a Category, Tag or Activity whose pk is no persisted      *)
(* row's fails with KeyError and the persisted rows are as they were;      *)
(* get(pk) of such a pk fails with KeyError.                               *)
C9_UnknownPkNotFound ==
    /\ \A tbl \in NameTables, pk \in ArgPks :
           (pk # NULL /\ ~HasPk(db[tbl], pk)) =>
               /\ LET r == NameRemove(Cur, tbl, Keyed(pk)) IN
                  r.err = "KeyError" /\ r.st.db = db
               /\ NameGet(Cur, tbl, pk).err = "KeyError"
    /\ \A pk \in ArgPks :
           (pk # NULL /\ ~HasPk(db.acts, pk)) =>
               /\ LET r == ActRemove(Cur, KeyedActivity(pk)) IN
                  r.err = "KeyError" /\ r.st.db = db
               /\ ActGet(Cur, pk).err = "KeyError"

(* C10: remove of a persisted Activity that a Fact references returns True *)
(* (1), leaves the Activity persisted with its pk and deleted set, found   *)
(* by get(pk), and leaves the facts as they were.                          *)
C10_SoftDelete ==
    \A pk \in ArgPks :
        (HasPk(db.acts, pk) /\ \E x \in db.facts : x.activity = pk) =>
            LET r == ActRemove(Cur, KeyedActivity(pk)) IN
            /\ r.err = "" /\ r.ret = 1
            /\ HasPk(r.st.db.acts, pk) /\ Row(r.st.db.acts, pk).deleted
            /\ ActGet(r.st, pk).err = ""
            /\ r.st.db.facts = db.facts

(* C11: remove of a persisted Activity that no Fact references deletes its *)
(* row and returns True (1); get(pk) then raises KeyError, and no other    *)
(* Activity row and no Category row is changed.                            *)
C11_HardDelete ==
    \A pk \in ArgPks :
        (HasPk(db.acts, pk) /\ ~\E x \in db.facts : x.activity = pk) =>
            LET r == ActRemove(Cur, KeyedActivity(pk)) IN
            /\ r.err = "" /\ r.ret = 1
            /\ r.st.db.acts = db.acts \ {Row(db.acts, pk)}
            /\ r.st.db.cats = db.cats
            /\ ActGet(r.st, pk).err = "KeyError"

(* C12: a successful add of an unkeyed Category returns an entity with a   *)
(* pk; get of that pk then returns an entity whose fields other than pk    *)
(* equal the input's, and which is not equal to the input (pk None) when   *)
(* pk is compared too.                                                     *)
C12_AddGetRoundTrip ==
    \A c \in NameItems :
        LET r == NameAdd(Cur, "cats", c, FALSE) IN
        (c.pk = NULL /\ r.err = "") =>
            /\ r.ret # NULL
            /\ LET g == NameGet(r.st, "cats", r.ret) IN
               /\ g.err = ""
               /\ LET stored == as_hamster(Row(g.st.ses.cats, g.ret)) IN
                  /\ stored.pk = r.ret
                  /\ equal_fields(c, stored)
                  /\ c # stored

(* a Category was added, and another unkeyed one of another name can be    *)
(* added next to it                                                        *)
C12_Witness ==
    /\ last = [mgr |-> "categories", op |-> "add", err |-> ""]
    /\ \E row \in db.cats, c \in NameItems :
           /\ c.pk = NULL /\ c.name # row.name
           /\ NameAdd(Cur, "cats", c, FALSE).err = ""

(* C13: get_or_create called twice in a row with the same unkeyed          *)
(* Category, Tag or Activity returns the same pk both times and the second *)
(* call adds no row; when the name (or name and category) is already       *)
(* persisted the first call adds no row either.                            *)
C13_GetOrCreateIdempotent ==
    /\ \A tbl \in NameTables, c \in NameItems :
           c.pk = NULL =>
               LET r1 == NameGetOrCreate(Cur, tbl, c, FALSE)
                   r2 == NameGetOrCreate(r1.st, tbl, c, FALSE)
               IN /\ r1.err = "" /\ r2.err = "" /\ r1.ret = r2.ret
                  /\ r2.st.db = r1.st.db
                  /\ (\E o \in db[tbl] : o.name = c.name) => r1.st.db = db
    /\ \A a \in NewActivities :
           a.pk = NULL =>
               LET r1 == ActGetOrCreate(Cur, a)
                   r2 == ActGetOrCreate(r1.st, a)
               IN /\ r1.err = "" /\ r2.err = "" /\ r1.ret = r2.ret
                  /\ r2.st.db = r1.st.db
                  /\ (\E o \in db.acts : SameKey(db, a, o)) => r1.st.db = db

(* C14: add of an unkeyed Fact whose window [start, end) shares a time     *)
(* with the window of a persisted Fact fails with the "timeframe occupied" *)
(* ValueError, and the failed call adds no Fact, Activity, Category or Tag *)
(* row.                                                                    *)
C14_OverlappingAddRefused ==
    \A x \in Facts :
        (x.pk = NULL /\ \E F \in db.facts : FactsIntersect(x, F)) =>
            LET r == FactAdd(Cur, x) IN
            r.err = OccupiedError /\ r.st.db = db /\ r.st.ses = ses

(* an add was refused as occupied while a closed fact is persisted that a  *)
(* candidate of a not yet persisted activity overlaps in part: it starts   *)
(* inside the fact's window and ends after it                              *)
C14_Witness ==
    /\ last = [mgr |-> "facts", op |-> "add", err |-> OccupiedError]
    /\ \E F \in db.facts, x \in Facts :
           /\ x.pk = NULL /\ F.end # NoEnd
           /\ F.start < x.start /\ x.start < F.end
           /\ F.end < EndEffective(x.end)
           /\ ~\E o \in db.acts : SameKey(db, x.activity, o)

(* window w conflicts with fact F: start < F.end and F.start < end, an     *)
(* absent end being later than every time                                  *)
Conflicts(w, F) ==
    /\ F.end = NoEnd \/ w.start < F.end
    /\ w.end = NoEnd \/ F.start < w.end

(* C15: is_window_free(start, end, exclude_pk) is false exactly when some  *)
(* persisted Fact F other than exclude_pk has start < F.end_effective and  *)
(* F.start < end_effective, an absent end taken as +infinity; a window     *)
(* that ends at or before F.start, or starts at or after F.end, is free    *)
(* of F.                                                                   *)
C15_WindowFreeExact ==
    \A w \in Windows :
        /\ \A pk \in ArgPks :
               is_window_free(db.facts, w.start, w.end, pk) <=>
                   ~\E F \in db.facts : F.pk # pk /\ Conflicts(w, F)
        /\ \A F \in db.facts :
               (\/ w.end # NoEnd /\ w.end <= F.start
                \/ F.end # NoEnd /\ F.end <= w.start) =>
                   is_window_free({F}, w.start, w.end, NULL)

(* a closed fact is persisted next to an ongoing one: the window before it *)
(* is free, its own window is occupied, and free once its own pk is left   *)
(* out                                                                     *)
C15_Witness ==
    /\ last.mgr = "facts" /\ last.err = ""
    /\ Ongoing(db.facts) # {}
    /\ \E F \in db.facts :
           /\ F.end # NoEnd /\ 0 < F.start /\ F.start < F.end
           /\ is_window_free(db.facts, 0, F.start, NULL)
           /\ ~is_window_free(db.facts, F.start, F.end, NULL)
           /\ is_window_free(db.facts, F.start, F.end, F.pk)

(* C16: update of a persisted Fact leaves its own stored row out of the    *)
(* overlap check: a new window that intersects no other Fact is accepted,  *)
(* the number of Facts stays the same and the new start and end are        *)
(* stored; a new window that intersects another Fact is refused with the   *)
(* occupied-timeframe error.                                               *)
C16_UpdateExcludesOwnRow ==
    \A x \in Facts :
        HasPk(db.facts, x.pk) =>
            LET r == FactUpdate(Cur, x)
                others == {F \in db.facts : F.pk # x.pk}
            IN IF \E F \in others : Conflicts(x, F)
               THEN r.err = OccupiedError /\ r.st.db = db
               ELSE /\ r.err = "" /\ r.ret = x.pk
                    /\ Cardinality(r.st.db.facts) = Cardinality(db.facts)
                    /\ Row(r.st.db.facts, x.pk).start = x.start
                    /\ Row(r.st.db.facts, x.pk).end = x.end
                    /\ \A F \in others : F \in r.st.db.facts

(* after an update, a fact stored next to another one can be resized to a  *)
(* different window that intersects its own stored window                  *)
C16_Witness ==
    /\ last.mgr = "facts" /\ last.op = "update" /\ last.err = ""
    /\ \E F \in db.facts, x \in Facts :
           /\ x.pk = F.pk /\ Conflicts(x, F)
           /\ <<x.start, x.end>> # <<F.start, F.end>>
           /\ \E G \in db.facts : G.pk # F.pk
           /\ FactUpdate(Cur, x).err = ""
           /\ Row(FactUpdate(Cur, x).st.db.facts, x.pk).end = x.end

(* C17: FactManager.add is one atomic unit: when a call of add raises,     *)
(* no Category, Activity, Tag or Fact row made during the call is          *)
(* persisted, and none is left in the session for later reads to see.      *)
C17_AtomicCascade ==
    \A x \in Facts, tags \in TagLists :
        LET r == FactAddTags(Cur, x, tags) IN
        r.err # "" =>
            \A t \in {"cats", "acts", "tags", "facts"} :
                /\ r.st.db[t] \subseteq db[t]
                /\ r.st.ses[t] \subseteq ses[t]

(* C18: add of an unkeyed Activity whose (name, category) is not persisted *)
(* makes exactly one Activity row, and one Category row exactly when the   *)
(* Activity has a category whose name is not persisted; an add whose       *)
(* (name, category) is persisted is refused and leaves the number of       *)
(* Activity rows and of Category rows as they were.                        *)
C18_AddFrame ==
    \A a \in NewActivities :
        a.pk = NULL =>
            LET r == ActAdd(Cur, a)
                newcat == /\ a.category # None
                          /\ ~\E c \in db.cats : c.name = a.category.name
            IN IF \E o \in db.acts : SameKey(db, a, o)
               THEN /\ r.err = TakenError
                    /\ Cardinality(r.st.db.acts) = Cardinality(db.acts)
                    /\ Cardinality(r.st.db.cats) = Cardinality(db.cats)
               ELSE /\ r.err = ""
                    /\ Cardinality(r.st.db.acts) = Cardinality(db.acts) + 1
                    /\ Cardinality(r.st.db.cats) =
                           Cardinality(db.cats) + (IF newcat THEN 1 ELSE 0)

(* the persisted Category rows that a persisted Activity refers to *)
Referenced == {c \in db.cats : \E a \in db.acts : a.category = c.pk}

(* C19: a Category is not physically deleted while an Activity refers to   *)
(* it: every step of CategoryManager.remove and the ActivityManager calls  *)
(* keeps each referenced Category row, and every persisted Activity with a *)
(* category refers to a Category row that exists.                          *)
C19_ReferencedCategoryKept ==
    /\ [](\A a \in db.acts : a.category # NULL => HasPk(db.cats, a.category))
    /\ [][\A c \in Referenced : HasPk(db'.cats, c.pk)]_vars

(* the sort columns get_all is to ignore: an unknown one always, one of    *)
(* AggCols when aggregation is not enabled                                 *)
Ignored(include_usage) ==
    {"other"} \cup (IF include_usage THEN {} ELSE AggCols)

(* C20: get_all never raises because of its sort arguments: whatever the   *)
(* sort column and order, the Activity and the Category manager's get_all  *)
(* raises only what the same call with no sort column raises; and when     *)
(* every sort column is unknown, or needs aggregation that is not enabled, *)
(* the results come in the ordering of the call with no sort column.       *)
C20_SortNeverRaises ==
    /\ \A by_usage \in BOOLEAN, sort_col \in SortCols, sort_order \in SortOrders :
           LET r == ActGetAll(Cur, by_usage, sort_col, sort_order)
               d == ActGetAll(Cur, by_usage, "", sort_order)
           IN /\ r.err = d.err
              /\ sort_col \in Ignored(by_usage) => r.ret = d.ret
    /\ \A include_usage \in BOOLEAN, sort_cols \in SortColLists,
          sort_orders \in SortOrderLists :
           LET r == CatGetAll(Cur, include_usage, sort_cols, sort_orders)
               d == CatGetAll(Cur, include_usage,
                              IF include_usage THEN <<"usage">> ELSE <<"name">>,
                              sort_orders)
           IN /\ r.err = d.err
              /\ (/\ sort_cols # <<>>
                  /\ \A i \in DOMAIN sort_cols :
                         sort_cols[i] \in Ignored(include_usage)) => r.ret = d.ret

(* fact F shares a time with the range [since, until], a missing bound     *)
(* being no bound and a missing end being later than every time            *)
InRange(F, since, until) ==
    /\ until = NoTime \/ F.start <= until
    /\ since = NoTime \/ F.end = NoEnd \/ F.end >= since

(* C21: with partial = true the time-range filter keeps exactly the Facts  *)
(* whose interval overlaps [since, until], among them a Fact that starts   *)
(* before since and ends after until and an ongoing Fact that started      *)
(* before since, and drops every Fact that lies outside the range.         *)
C21_PartialKeepsOverlaps ==
    \A r \in Ranges, endless \in BOOLEAN :
        get_all_filter_partial(db.facts, r.since, r.until, endless, TRUE) =
            {F \in db.facts : InRange(F, r.since, r.until)}

(* C22: with partial = false and no until, endless = true returns every    *)
(* Fact that the same query returns with endless = false, closed Facts     *)
(* included, and whatever it returns beyond those is an ongoing Fact; an   *)
(* ongoing Fact that passes the since bound is returned.                   *)
C22_EndlessAddsOngoing ==
    \A since \in Times \cup {NoTime} :
        LET e == get_all_filter_partial(db.facts, since, NoTime, TRUE, FALSE)
            n == get_all_filter_partial(db.facts, since, NoTime, FALSE, FALSE)
        IN /\ n \subseteq e
           /\ \A F \in e \ n : F.end = NoEnd
           /\ \A F \in db.facts :
                  (F.end = NoEnd /\ (since = NoTime \/ F.start >= since)) =>
                      F \in e

(* the activities of tables t that a category argument stands for: all of  *)
(* them for False, those with no category for None, those of the Category  *)
(* with that pk, or with that name when it has no pk                       *)
OfCategory(t, category) ==
    IF category = NoFilter THEN t.acts
    ELSE IF category = None THEN {a \in t.acts : a.category = NULL}
    ELSE IF category.pk # NULL THEN {a \in t.acts : a.category = category.pk}
    ELSE {a \in t.acts : /\ a.category # NULL
                         /\ Row(t.cats, a.category).name = category.name}

(* C23: get_all with category = False returns the Activities of every      *)
(* category and those with none; with category = None exactly those with   *)
(* no category; with a Category exactly those of that Category, matched by *)
(* pk, or by name when it has no pk.                                       *)
C23_CategorySentinel ==
    \A category \in CategoryFilters :
        ActGetAllRows(db, FALSE, category, "") = OfCategory(db, category)

C25_SearchTermSubstring ==
    \A search_term \in Words :
        /\ ActGetAllRows(db, FALSE, NoFilter, search_term) =
               {a \in db.acts : ILike(a.name, search_term)}
        /\ CatGetAllRows(db, search_term) =
               {c \in db.cats : ILike(c.name, search_term)}

(* a sequence without its first n elements, and its first n elements *)
Drop(q, n) == SubSeq(q, n + 1, Len(q))

Take(q, n) == SubSeq(q, 1, IF n < Len(q) THEN n ELSE Len(q))

(* the ordered rows get_all returns when it is given no limit or offset *)
AllOrdered ==
    Ordered(db, ActGetAllRows(db, FALSE, NoFilter, ""),
            ActGetAllOrderBy("name", "", FALSE).order)

(* C26: query_apply_limit_offset sets the limit exactly when limit > 0 and *)
(* the offset exactly when offset > 0, each whatever the other is; a zero, *)
(* negative or None value bounds nothing on its side, and nothing is       *)
(* raised for such values.                                                 *)
C26_LimitOffsetPositiveOnly ==
    \A limit \in PageArgs, offset \in PageArgs :
        LET query == query_apply_limit_offset(NewQuery, limit, offset) IN
        /\ query.err = ""
        /\ query.limit = (IF limit \in 1..MaxPage THEN limit ELSE PyNone)
        /\ query.offset = (IF offset \in 1..MaxPage THEN offset ELSE PyNone)
        /\ \A q \in AllOrdered :
               Fetch(q, query) =
                   LET rest == IF offset \in 1..MaxPage THEN Drop(q, offset)
                               ELSE q
                   IN IF limit \in 1..MaxPage THEN Take(rest, limit) ELSE rest

(* a paged get_all has returned over two Activities in a category: limit 1 *)
(* with offset None gives the first, offset 1 with limit 0 the second      *)
C26_Witness ==
    /\ last = [mgr |-> "activities", op |-> "get_all", err |-> ""]
    /\ \E q \in AllOrdered :
           /\ Len(q) = 2
           /\ Fetch(q, query_apply_limit_offset(NewQuery, 1, PyNone)) = <<q[1]>>
           /\ Fetch(q, query_apply_limit_offset(NewQuery, 0, 1)) = <<q[2]>>

(* C27: when two callers interleave get_or_create, at most one row of a    *)
(* natural key is persisted (a name for Categories and Tags, a name and    *)
(* category for Activities, category None included), and a caller that     *)
(* does not get a row gets a ValueError (the duplicate-key error).         *)
C27_RaceKeepsKeysUnique ==
    /\ \A tbl \in NameTables : ~DupName(db[tbl])
    /\ ActivityUnique(db.acts)
    /\ last.op = "get_or_create" => last.err \in {""} \cup ValueErrors

(* the calls that follow a call's result r read and write as they do on a  *)
(* store that holds the rows persisted now and nothing pending             *)
Unpoisoned(r, tbl) ==
    /\ r.st.db = db
    /\ \A pk \in ArgPks :
           LET g == NameGet(r.st, tbl, pk) h == NameGet(Fresh(db), tbl, pk) IN
           g.err = h.err /\ g.ret = h.ret
    /\ \A d \in NameItems :
           /\ NameAdd(r.st, tbl, d, FALSE).err = NameAdd(Fresh(db), tbl, d, FALSE).err
           /\ NameUpdate(r.st, tbl, d).err = NameUpdate(Fresh(db), tbl, d).err
           /\ NameRemove(r.st, tbl, d).err = NameRemove(Fresh(db), tbl, d).err

(* C28: after an add or update of a Category, Tag or Activity fails with   *)
(* the ValueError of a uniqueness violation at commit, the pending change  *)
(* is discarded: the persisted rows are as before the call, and the next   *)
(* get, add, update or remove succeeds or fails as it does on a store      *)
(* holding just those rows.                                                *)
C28_FailedMutationDiscarded ==
    /\ \A tbl \in NameTables, c \in NameItems :
           /\ LET r == NameAdd(Cur, tbl, c, FALSE) IN
              r.err = CommitError => Unpoisoned(r, tbl)
           /\ LET r == NameUpdate(Cur, tbl, c) IN
              r.err = CommitError => Unpoisoned(r, tbl)
    /\ \A a \in Activities :
           LET r == ActUpdate(Cur, a) IN
           r.err = CommitError => Unpoisoned(r, "cats")

(* C29: under equal filters, get_all with include_usage=True returns the   *)
(* same Activities, and the same Categories, as with include_usage=False:  *)
(* one that no Fact refers to is returned too (with count 0).              *)
C29_UsageKeepsEntities ==
    /\ \A category \in CategoryFilters, search_term \in {"", "a"} :
           ActGetAllRows(db, TRUE, category, search_term)
               = ActGetAllRows(db, FALSE, category, search_term)
    /\ \A search_term \in {"", "a"} :
           CatGetAllUsageRows(db, TRUE, search_term)
               = CatGetAllUsageRows(db, FALSE, search_term)

(* C30: while an Activity with deleted set is persisted, get_or_create of  *)
(* an unkeyed Activity with its name and category returns that row (its    *)
(* pk, deleted still set) and adds nothing, and add of such an Activity    *)
(* is refused with the "already contains" ValueError.                      *)
C30_SoftDeletedKeepsKey ==
    \A o \in db.acts, a \in NewActivities :
        (o.deleted /\ a.pk = NULL /\ SameKey(db, a, o)) =>
            /\ LET r == ActGetOrCreate(Cur, a) IN
               /\ r.err = "" /\ r.ret = o.pk
               /\ r.st.db = db
               /\ o \in r.st.ses.acts
            /\ LET r == ActAdd(Cur, a) IN
               r.err = TakenError /\ r.st.db = db

====
